---- MODULE Spec2Model ----
(***************************************************************************)
(* Model of the CEO-buys screener: the OHLCV normalizer (utils/df_utils),   *)
(* the FMP gateway with its on-disk cache (data_loaders/fmp_data_loader),   *)
(* the two filters and the aggregation of CandidateFinder, and main.        *)
(*                                                                         *)
(* Text (column names, role descriptions, CSV cells) is a sequence of       *)
(* one-character strings, so that lower-casing, substring search and the    *)
(* CSV round trip are computed and not assumed.  Floating-point numbers     *)
(* are modelled by exact rationals; rounding is outside the model.          *)
(***************************************************************************)
EXTENDS Integers, Sequences, FiniteSets, TLC

VARIABLES
    pc,                   \* position of the process in main / find_candidates
    symbol_list,          \* candidate_finder.py:41 and :56
    idx,                  \* position of the running batch-fetch loop in symbol_list
    results,              \* the `results` dict of the running batch fetch
    price_drop_percent,   \* the threshold handed to filter_by_price_drop
    cache,                \* the files of CACHE_DIR: key -> CSV file
    prices_dict,          \* candidate_finder.py:48
    filtered_prices_dict, \* candidate_finder.py:55
    insider_trades_dict,  \* candidate_finder.py:63
    filtered_trades_dict, \* candidate_finder.py:70
    candidates_df,        \* the value find_candidates returns
    results_csv,          \* RESULTS_DIR/candidates.csv, once written
    plotted,              \* whether plot_candidates was called
    calls,                \* history: the single-symbol fetches of this run, in order
    last_call,            \* history: the last direct call of a single-symbol fetch
    first_ret,            \* history: per cache key, what its first successful fetch returned
    raw_df,               \* the frame handed to standardize_ohlcv_dataframe
    std_df                \* the frame it returned

vars == <<pc, symbol_list, idx, results, price_drop_percent, cache, prices_dict,
          filtered_prices_dict, insider_trades_dict, filtered_trades_dict,
          candidates_df, results_csv, plotted, calls, last_call, first_ret,
          raw_df, std_df>>

-----------------------------------------------------------------------------
(* Bounds of the model *)

\* rows of one price response
MaxRows == 2

\* transactions of one insider-trading response
MaxTrades == 2

\* the day find_candidates runs, as a day of the year
Today == 150

(* Program constants *)

\* timedelta(days=120), the price window
PriceLookbackDays == 120

\* timedelta(days=20), the insider-trading window
InsiderLookbackDays == 20

\* config.PRICE_DROP_PERCENT
PRICE_DROP_PERCENT == -10

-----------------------------------------------------------------------------
(* Generic helpers *)

None == [none |-> TRUE]

Range(s) == {s[k] : k \in 1..Len(s)}


RECURSIVE GCD(_, _)
GCD(a, b) == IF b = 0 THEN a ELSE GCD(b, a % b)

Abs(a) == IF a < 0 THEN -a ELSE a

\* A float, as the exact rational n/d in lowest terms with d > 0.
Rat(n, d) ==
    LET s == IF d < 0 THEN -1 ELSE 1
        g == GCD(Abs(n), Abs(d))
    IN  [n |-> (s * n) \div g, d |-> (s * d) \div g]

RatOfInt(k) == [n |-> k, d |-> 1]

RatAdd(a, b) == Rat(a.n * b.d + b.n * a.d, a.d * b.d)

RatDivInt(a, k) == Rat(a.n, a.d * k)

RatLeq(a, b) == a.n * b.d <= b.n * a.d

RECURSIVE RatSum(_)
RatSum(s) == IF s = <<>> THEN RatOfInt(0) ELSE RatAdd(s[1], RatSum(Tail(s)))

\* pandas' mean of a non-empty numeric column
RatMean(s) == RatDivInt(RatSum(s), Len(s))

-----------------------------------------------------------------------------
(* Text *)

UpperCase == <<"A","B","C","D","E","F","G","H","I","J","K","L","M",
               "N","O","P","Q","R","S","T","U","V","W","X","Y","Z">>

LowerCase == <<"a","b","c","d","e","f","g","h","i","j","k","l","m",
               "n","o","p","q","r","s","t","u","v","w","x","y","z">>

Digits == <<"0","1","2","3","4","5","6","7","8","9">>

lower_char(c) ==
    IF \E k \in 1..26 : UpperCase[k] = c
    THEN LowerCase[CHOOSE k \in 1..26 : UpperCase[k] = c]
    ELSE c

upper_char(c) ==
    IF \E k \in 1..26 : LowerCase[k] = c
    THEN UpperCase[CHOOSE k \in 1..26 : LowerCase[k] = c]
    ELSE c

\* str.lower
str_lower(s) == [k \in 1..Len(s) |-> lower_char(s[k])]


\* Series.str.contains(pat, case=False) on one value, pat without regex
\* metacharacters: a case-insensitive search of pat anywhere in s
str_contains_nocase(s, pat) ==
    \E k \in 0..(Len(s) - Len(pat)) :
        str_lower(SubSeq(s, k + 1, k + Len(pat))) = str_lower(pat)

IsDigit(c) == \E k \in 1..10 : Digits[k] = c

DigitValue(c) == (CHOOSE k \in 1..10 : Digits[k] = c) - 1

IsNumeral(t) == Len(t) > 0 /\ \A k \in 1..Len(t) : IsDigit(t[k])

\* the decimal text of a natural number
RECURSIVE FormatNat(_)
FormatNat(v) ==
    IF v < 10 THEN <<Digits[v + 1]>>
    ELSE Append(FormatNat(v \div 10), Digits[(v % 10) + 1])

\* the natural number a numeral denotes
RECURSIVE ParseNat(_)
ParseNat(t) ==
    IF Len(t) = 1 THEN DigitValue(t[1])
    ELSE 10 * ParseNat(SubSeq(t, 1, Len(t) - 1)) + DigitValue(t[Len(t)])

\* A date is the number of its day in the year, written YYYY-DDD.
YearPrefix == <<"2","0","2","4","-">>

FormatDay(d) ==
    YearPrefix \o (IF d < 100 THEN <<"0">> ELSE <<>>)
               \o (IF d < 10 THEN <<"0">> ELSE <<>>) \o FormatNat(d)

IsDayText(t) ==
    /\ Len(t) = Len(YearPrefix) + 3
    /\ SubSeq(t, 1, Len(YearPrefix)) = YearPrefix
    /\ IsNumeral(SubSeq(t, Len(YearPrefix) + 1, Len(t)))

ParseDay(t) == ParseNat(SubSeq(t, Len(YearPrefix) + 1, Len(t)))

-----------------------------------------------------------------------------
(* Cells and frames.  A frame is its column names and its rows, each row a  *)
(* tuple of cells aligned with the columns.                                  *)

Num(v) == [num |-> v]
Str(s) == [str |-> s]
Day(d) == [day |-> d]
Flt(r) == [flt |-> r]
NaN == [nan |-> TRUE]
Inf == [inf |-> TRUE]

IsNum(c) == DOMAIN c = {"num"}
IsStr(c) == DOMAIN c = {"str"}
IsDay(c) == DOMAIN c = {"day"}
IsNaN(c) == DOMAIN c = {"nan"}
IsInf(c) == DOMAIN c = {"inf"}

Frame(columns, rows) == [columns |-> columns, rows |-> rows]

HasColumn(df, name) == \E k \in 1..Len(df.columns) : df.columns[k] = name

\* df[name] resolves to the first column of that name
ColIndex(df, name) ==
    CHOOSE k \in 1..Len(df.columns) :
        /\ df.columns[k] = name
        /\ \A j \in 1..(k - 1) : df.columns[j] # name

Cell(df, r, name) == df.rows[r][ColIndex(df, name)]

\* df.empty
IsEmpty(df) == Len(df.rows) = 0

\* df[name] = f(cell), applied to every row
MapColumn(df, name, f(_)) ==
    LET c == ColIndex(df, name)
    IN  Frame(df.columns,
              [r \in 1..Len(df.rows) |->
                  [k \in 1..Len(df.columns) |->
                      IF k = c THEN f(df.rows[r][k]) ELSE df.rows[r][k]]])

\* df[name] = value: the column is overwritten, or appended when new
SetColumn(df, name, value) ==
    IF HasColumn(df, name)
    THEN LET c == ColIndex(df, name)
         IN  Frame(df.columns,
                   [r \in 1..Len(df.rows) |->
                       [k \in 1..Len(df.columns) |->
                           IF k = c THEN value ELSE df.rows[r][k]]])
    ELSE Frame(Append(df.columns, name),
               [r \in 1..Len(df.rows) |-> Append(df.rows[r], value)])

\* df[mask]
FilterRows(df, keep(_)) == Frame(df.columns, SelectSeq(df.rows, keep))

\* sort_values(by=[name], ascending=True) on a column of dates
RECURSIVE InsertByDay(_, _, _)
InsertByDay(sorted, row, c) ==
    IF sorted = <<>> THEN <<row>>
    ELSE IF row[c].day < sorted[1][c].day THEN <<row>> \o sorted
    ELSE <<sorted[1]>> \o InsertByDay(Tail(sorted), row, c)

RECURSIVE SortRowsByDay(_, _)
SortRowsByDay(rows, c) ==
    IF rows = <<>> THEN <<>>
    ELSE InsertByDay(SortRowsByDay(SubSeq(rows, 1, Len(rows) - 1), c),
                     rows[Len(rows)], c)

sort_values(df, name) ==
    Frame(df.columns, SortRowsByDay(df.rows, ColIndex(df, name)))

-----------------------------------------------------------------------------
(* utils/df_utils.py *)

n_date == <<"d","a","t","e">>
n_time == <<"t","i","m","e">>
n_open == <<"o","p","e","n">>
n_high == <<"h","i","g","h">>
n_low == <<"l","o","w">>
n_close == <<"c","l","o","s","e">>
n_adj_close == <<"a","d","j","_","c","l","o","s","e">>
n_volume == <<"v","o","l","u","m","e">>

\* rename_mapping, its keys as written in the source

rename_mapping ==
    << <<<<"D","a","t","e">>, n_date>>,
       <<<<"D","a","t","e","t","i","m","e">>, n_date>>,
       <<<<"D","a","t","e","T","i","m","e">>, n_date>>,
       <<<<"T","i","m","e">>, n_time>>,
       <<<<"O","p","e","n">>, n_open>>,
       <<<<"H","i","g","h">>, n_high>>,
       <<<<"L","o","w">>, n_low>>,
       <<<<"C","l","o","s","e">>, n_close>>,
       <<<<"A","d","j","C","l","o","s","e">>, n_adj_close>>,
       <<<<"A","d","j"," ","C","l","o","s","e">>, n_adj_close>>,
       <<<<"a","d","j","c","l","o","s","e">>, n_adj_close>>,
       <<<<"V","o","l","u","m","e">>, n_volume>> >>

\* df.rename(columns=mapping) on one name: a key of the mapping is replaced,
\* any other name is kept
rename_by(mapping, name) ==
    IF \E k \in 1..Len(mapping) : mapping[k][1] = name
    THEN mapping[CHOOSE k \in 1..Len(mapping) : mapping[k][1] = name][2]
    ELSE name

\* lines 37-38: rename(columns=str.lower), then rename(columns=rename_mapping)
rename_columns(columns) ==
    [k \in 1..Len(columns) |-> rename_by(rename_mapping, str_lower(columns[k]))]

\* pd.to_datetime(..., errors='coerce') on one cell
to_datetime_coerce(c) ==
    IF IsDay(c) THEN c
    ELSE IF IsStr(c) /\ IsDayText(c.str) THEN Day(ParseDay(c.str))
    ELSE NaN

replace_inf(c) == IF IsInf(c) THEN NaN ELSE c

RowHasNaN(row) == \E k \in 1..Len(row) : IsNaN(row[k])

RowIsComplete(row) == ~RowHasNaN(row)

standardize_ohlcv_dataframe(df) ==
    LET renamed == Frame(rename_columns(df.columns), df.rows)
        dated == IF HasColumn(renamed, n_date)
                 THEN MapColumn(renamed, n_date, to_datetime_coerce)
                 ELSE renamed
        finite == Frame(dated.columns,
                        [r \in 1..Len(dated.rows) |->
                            [k \in 1..Len(dated.rows[r]) |->
                                replace_inf(dated.rows[r][k])]])
        \* dropna; the ffill and to_numeric that follow change nothing
    IN  FilterRows(finite, RowIsComplete)

-----------------------------------------------------------------------------
(* A CSV file: the header and, per row, the text of each cell. *)

format_cell(c) ==
    IF IsNum(c) THEN FormatNat(c.num)
    ELSE IF IsDay(c) THEN FormatDay(c.day)
    ELSE IF IsStr(c) THEN c.str
    ELSE <<>>

\* DataFrame.to_csv
to_csv(df) ==
    [header |-> df.columns,
     lines |-> [r \in 1..Len(df.rows) |->
                  [k \in 1..Len(df.columns) |-> format_cell(df.rows[r][k])]]]

\* read_csv infers a column's type: numeric when every non-empty cell is a
\* numeral, text otherwise; an empty cell is NaN
ColumnIsNumeric(file, k) ==
    \A r \in 1..Len(file.lines) :
        file.lines[r][k] = <<>> \/ IsNumeral(file.lines[r][k])

parse_cell(file, r, k) ==
    LET t == file.lines[r][k]
    IN  IF t = <<>> THEN NaN
        ELSE IF ColumnIsNumeric(file, k) THEN Num(ParseNat(t))
        ELSE Str(t)

\* pd.read_csv
read_csv(file) ==
    Frame(file.header,
          [r \in 1..Len(file.lines) |->
              [k \in 1..Len(file.header) |-> parse_cell(file, r, k)]])

-----------------------------------------------------------------------------
(* data_loaders/fmp_data_loader.py *)

n_transactionDate == <<"t","r","a","n","s","a","c","t","i","o","n","D","a","t","e">>
n_typeOfOwner == <<"t","y","p","e","O","f","O","w","n","e","r">>
n_transactionType == <<"t","r","a","n","s","a","c","t","i","o","n","T","y","p","e">>
n_securitiesTransacted ==
    <<"s","e","c","u","r","i","t","i","e","s","T","r","a","n","s","a","c","t","e","d">>
n_securitiesOwned == <<"s","e","c","u","r","i","t","i","e","s","O","w","n","e","d">>

\* What requests.get does: it raises, or answers with a status code and a body.
\* The body is the list of records of the JSON document, as the frame
\* pd.DataFrame makes of it.
RaisedResponse == [raises |-> TRUE, status_code |-> 0, body |-> Frame(<<>>, <<>>)]

HttpResponse(code, body) == [raises |-> FALSE, status_code |-> code, body |-> body]

\* the cache file names of lines 41 and 116
PricesPath(symbol, start, end) == <<symbol, start, end, "prices">>

\* variant: a file name without the date range
InsiderPath_without_dates(symbol, from, to) == <<symbol, 0, 0, "insider-trades">>

InsiderPath(symbol, from, to) == <<symbol, from, to, "insider-trades">>

\* os.path.exists
path_exists(files, path) == path \in DOMAIN files

WriteFile(files, path, content) ==
    [p \in DOMAIN files \cup {path} |-> IF p = path THEN content ELSE files[p]]

\* pd.to_datetime without errors='coerce': the caller sees an exception on a
\* value that is no date
IsDateCell(c) == IsDay(c) \/ (IsStr(c) /\ IsDayText(c.str))

to_datetime(c) == IF IsDay(c) THEN c ELSE Day(ParseDay(c.str))

ColumnIsDates(df, name) ==
    \A r \in 1..Len(df.rows) : IsDateCell(Cell(df, r, name))

\* the outcome of a single-symbol fetch
Returned(ret, files, net) ==
    [raised |-> FALSE, ret |-> ret, cache |-> files, net |-> net]

Raised(files, net) == [raised |-> TRUE, ret |-> None, cache |-> files, net |-> net]

\* lines 44-48: the cached file is read back
read_cached_prices(file) ==
    MapColumn(read_csv(file), n_date, to_datetime)

\* lines 51-71, the body of the try block
request_daily_prices(path, cache_data, files, response) ==
    IF response.raises THEN Raised(files, TRUE)
    ELSE IF response.status_code # 200 THEN Returned(None, files, TRUE)
    ELSE IF IsEmpty(response.body) THEN Returned(None, files, TRUE)
    ELSE LET std == standardize_ohlcv_dataframe(response.body)
         IN  IF ~HasColumn(std, n_date) THEN Raised(files, TRUE)
             ELSE LET prices_df == sort_values(MapColumn(std, n_date, to_datetime),
                                               n_date)
                  IN  Returned(prices_df,
                               IF cache_data
                               THEN WriteFile(files, path, to_csv(prices_df))
                               ELSE files,
                               TRUE)

\* variant: no except clause, the exception leaves the fetch
except_reraise(outcome) == outcome

\* lines 72-74: whatever the try block raises is printed and None is returned
except_return_none(outcome) ==
    IF outcome.raised THEN Returned(None, outcome.cache, outcome.net) ELSE outcome

fetch_daily_prices_by_date(symbol, start, end, cache_data, files, response) ==
    LET path == PricesPath(symbol, start, end)
    IN  IF cache_data /\ path_exists(files, path)
        THEN Returned(read_cached_prices(files[path]), files, FALSE)
        ELSE except_return_none(request_daily_prices(path, cache_data, files, response))

\* the date filter of lines 123 and 138
InRange(df, from, to) ==
    LET c == ColIndex(df, n_transactionDate)
        keep(row) == from <= row[c].day /\ row[c].day <= to
    IN  FilterRows(df, keep)

\* lines 119-124
read_cached_trades(file, from, to) ==
    InRange(MapColumn(read_csv(file), n_transactionDate, to_datetime), from, to)

\* lines 127-148, the body of the try block
request_insider_trades(path, from, to, cache_data, files, response) ==
    IF response.raises THEN Raised(files, TRUE)
    ELSE IF response.status_code # 200 THEN Returned(None, files, TRUE)
    ELSE IF IsEmpty(response.body) THEN Returned(None, files, TRUE)
    ELSE IF \/ ~HasColumn(response.body, n_transactionDate)
            \/ ~ColumnIsDates(response.body, n_transactionDate)
         THEN Raised(files, TRUE)
    ELSE LET dated == MapColumn(response.body, n_transactionDate, to_datetime)
             trades_df == InRange(sort_values(dated, n_transactionDate), from, to)
         IN  Returned(trades_df,
                      IF cache_data
                      THEN WriteFile(files, path, to_csv(trades_df))
                      ELSE files,
                      TRUE)

fetch_insider_trades(symbol, from, to, cache_data, files, response) ==
    LET path == InsiderPath(symbol, from, to)
    IN  IF cache_data /\ path_exists(files, path)
        THEN Returned(read_cached_trades(files[path], from, to), files, FALSE)
        ELSE except_return_none(
                 request_insider_trades(path, from, to, cache_data, files, response))

-----------------------------------------------------------------------------
(* analysis_tools/candidate_finder.py.  A dict is the sequence of its      *)
(* entries in insertion order, which is the order .items() yields them.     *)

n_price_drop == <<"p","r","i","c","e","_","d","r","o","p">>
n_symbol == <<"s","y","m","b","o","l">>
n_ownership_change ==
    <<"o","w","n","e","r","s","h","i","p","_","c","h","a","n","g","e">>

t_CEO == <<"C","E","O">>
t_CFO == <<"C","F","O">>
t_COO == <<"C","O","O">>
t_director == <<"d","i","r","e","c","t","o","r">>
t_P_Purchase == <<"P","-","P","u","r","c","h","a","s","e">>

Sym(s) == [sym |-> s]

Entry(symbol, df) == [symbol |-> symbol, df |-> df]

Keys(dict) == {dict[k].symbol : k \in 1..Len(dict)}

\* dict.keys(), in order
KeyList(dict) == [k \in 1..Len(dict) |-> dict[k].symbol]

\* dict[symbol]
Get(dict, symbol) ==
    dict[CHOOSE k \in 1..Len(dict) : dict[k].symbol = symbol].df

\* results[symbol] = df
Put(dict, symbol, df) ==
    IF symbol \in Keys(dict)
    THEN [k \in 1..Len(dict) |->
             IF dict[k].symbol = symbol THEN Entry(symbol, df) ELSE dict[k]]
    ELSE Append(dict, Entry(symbol, df))

\* lines 18-20
price_drop_of(df) ==
    LET first_price == Cell(df, 1, n_close).num
        last_price == Cell(df, Len(df.rows), n_close).num
        quotient == Rat(first_price - last_price, first_price)
    IN  Rat(quotient.n * 100, quotient.d)

\* line 21, which writes into the frame the caller's dict holds
with_price_drop(df) ==
    IF IsEmpty(df) THEN df ELSE SetColumn(df, n_price_drop, Flt(price_drop_of(df)))

\* variant: the comparison of line 22 made strict
passes_price_drop_strict(df, threshold) ==
    /\ ~IsEmpty(df)
    /\ RatLeq(price_drop_of(df), RatOfInt(threshold))
    /\ price_drop_of(df) # RatOfInt(threshold)

\* lines 17 and 22
passes_price_drop(df, threshold) ==
    ~IsEmpty(df) /\ RatLeq(price_drop_of(df), RatOfInt(threshold))

\* lines 14-24: the dict returned
filter_by_price_drop(dict, threshold) ==
    LET keep(e) == passes_price_drop(e.df, threshold)
        kept == SelectSeq(dict, keep)
    IN  [k \in 1..Len(kept) |-> Entry(kept[k].symbol, with_price_drop(kept[k].df))]

\* lines 14-24: the caller's dict once the call returned
prices_after_filter(dict) ==
    [k \in 1..Len(dict) |-> Entry(dict[k].symbol, with_price_drop(dict[k].df))]

\* variant: str.contains without case=False
cell_contains_case_sensitive(c, pat) ==
    /\ IsStr(c)
    /\ \E k \in 0..(Len(c.str) - Len(pat)) : SubSeq(c.str, k + 1, k + Len(pat)) = pat

\* str.contains on a cell; a missing value never matches
cell_contains(c, pat) == IsStr(c) /\ str_contains_nocase(c.str, pat)

\* lines 29-33: the row mask
is_ceo_buy(df, row) ==
    LET owner == row[ColIndex(df, n_typeOfOwner)]
        kind == row[ColIndex(df, n_transactionType)]
    IN  /\ \/ cell_contains(owner, t_CEO)
           \/ cell_contains(owner, t_CFO)
           \/ cell_contains(owner, t_COO)
           \/ cell_contains(owner, t_director)
        /\ kind = Str(t_P_Purchase)

ceo_buys_of(df) ==
    LET keep(row) == is_ceo_buy(df, row)
    IN  FilterRows(df, keep)

\* lines 26-36
filter_by_ceo_buys(dict) ==
    LET keep(e) == ~IsEmpty(ceo_buys_of(e.df))
        kept == SelectSeq(dict, keep)
    IN  [k \in 1..Len(kept) |-> Entry(kept[k].symbol, ceo_buys_of(kept[k].df))]

\* line 76, on one row
ownership_change_of(df, row) ==
    LET transacted == row[ColIndex(df, n_securitiesTransacted)].num
        owned == row[ColIndex(df, n_securitiesOwned)].num
        quotient == Rat(transacted, owned)
    IN  Rat(quotient.n * 100, quotient.d)

\* lines 75-76
with_ownership_change(symbol, df) ==
    LET named == SetColumn(df, n_symbol, Sym(symbol))
    IN  Frame(Append(named.columns, n_ownership_change),
              [r \in 1..Len(named.rows) |->
                  Append(named.rows[r], Flt(ownership_change_of(df, df.rows[r])))])

\* lines 79-82
with_price_drop_of(df, symbol, prices) ==
    IF symbol \in Keys(prices)
    THEN LET prices_df == Get(prices, symbol)
         IN  SetColumn(df, n_price_drop,
                       Cell(prices_df, Len(prices_df.rows), n_price_drop))
    ELSE df

\* lines 74-82: the frames of filtered_trades_dict once the loop has run
annotated_trades(trades, prices) ==
    [k \in 1..Len(trades) |->
        Entry(trades[k].symbol,
              with_price_drop_of(with_ownership_change(trades[k].symbol, trades[k].df),
                                 trades[k].symbol, prices))]

\* line 84 raises KeyError on a frame without a price_drop column
selection_raises(annotated) ==
    \E k \in 1..Len(annotated) : ~HasColumn(annotated[k].df, n_price_drop)

\* the frame of candidates: one record per row
Table(rows) == [table |-> rows]

\* the order groupby sorts the symbols in
SymbolOrder == <<"ABC", "XYZ">>

Symbols == Range(SymbolOrder)

ColumnValues(df, name) ==
    [r \in 1..Len(df.rows) |-> Cell(df, r, name).flt]

\* variant: the aggregation 'first' in place of 'mean'
group_first(annotated) ==
    LET present == SelectSeq(SymbolOrder, LAMBDA s : s \in Keys(annotated))
    IN  [k \in 1..Len(present) |->
            LET df == Get(annotated, present[k])
            IN  [symbol |-> present[k],
                 ownership_change |-> ColumnValues(df, n_ownership_change)[1],
                 price_drop |-> ColumnValues(df, n_price_drop)[1]]]

\* lines 90-96: concat, groupby('symbol'), mean of both columns, reset_index
group_mean(annotated) ==
    LET present == SelectSeq(SymbolOrder, LAMBDA s : s \in Keys(annotated))
    IN  [k \in 1..Len(present) |->
            LET df == Get(annotated, present[k])
            IN  [symbol |-> present[k],
                 ownership_change |-> RatMean(ColumnValues(df, n_ownership_change)),
                 price_drop |-> RatMean(ColumnValues(df, n_price_drop))]]

-----------------------------------------------------------------------------
(* The inputs: what the symbol loader and the FMP API can answer. *)

\* every ordering of the symbols, as fetch_sp500_symbols may list them
SymbolLists ==
    {l \in [1..Len(SymbolOrder) -> Symbols] :
        \A j, k \in 1..Len(SymbolOrder) : j # k => l[j] # l[k]}

PriceColumns == <<n_date, n_close>>

CloseCells == {Num(70), Num(100), Num(110), NaN}

\* n rows on the n days up to today, oldest or newest first
PriceRows(n, newest_first, closes) ==
    [k \in 1..n |->
        <<Str(FormatDay(IF newest_first THEN Today - k + 1 ELSE Today - n + k)),
          closes[k]>>]

PriceBodies ==
    UNION {{Frame(PriceColumns, PriceRows(n, newest_first, closes)) :
               closes \in [1..n -> CloseCells], newest_first \in BOOLEAN} :
           n \in 1..MaxRows}

\* a request that is not issued has no answer
Unasked == {HttpResponse(0, Frame(<<>>, <<>>))}

PriceResponses ==
    {RaisedResponse, HttpResponse(500, Frame(<<>>, <<>>)),
     HttpResponse(200, Frame(<<>>, <<>>))}
    \cup {HttpResponse(200, body) : body \in PriceBodies}

TradeColumns ==
    <<n_transactionDate, n_typeOfOwner, n_transactionType,
      n_securitiesTransacted, n_securitiesOwned>>

t_S_Sale == <<"S","-","S","a","l","e">>
t_officer_cfo == <<"o","f","f","i","c","e","r",":"," ","c","f","o">>
t_Vice_President == <<"V","i","c","e"," ","P","r","e","s","i","d","e","n","t">>

TradeRow(day, owner, kind, transacted, owned) ==
    <<Str(FormatDay(day)), Str(owner), Str(kind), Num(transacted), Num(owned)>>

\* the transactions the API reports: purchases and a sale, by officers and by
\* a vice president, inside and outside the 20-day window
TradeRows ==
    {TradeRow(Today - 5, t_CEO, t_P_Purchase, 1000, 10000),
     TradeRow(Today - 10, t_director, t_P_Purchase, 500, 10000),
     TradeRow(Today - 1, t_officer_cfo, t_P_Purchase, 1500, 10000),
     TradeRow(Today - 5, t_CEO, t_S_Sale, 1000, 10000),
     TradeRow(Today - 30, t_CEO, t_P_Purchase, 1500, 10000)}

TradeBodies ==
    UNION {{Frame(TradeColumns, rows) : rows \in [1..n -> TradeRows]} :
           n \in 1..MaxTrades}

TradeResponses ==
    {RaisedResponse, HttpResponse(500, Frame(<<>>, <<>>)),
     HttpResponse(200, Frame(<<>>, <<>>))}
    \cup {HttpResponse(200, body) : body \in TradeBodies}

-----------------------------------------------------------------------------
(* The run of main: find_candidates, stage by stage, then the plot. *)

Call(kind, symbol, outcome) ==
    [kind |-> kind, symbol |-> symbol, ret |-> outcome.ret, net |-> outcome.net]

NoCall == [kind |-> "none"]

NoFrame == Frame(<<>>, <<>>)

PipelineInit ==
    /\ pc = "fetch_prices"
    /\ symbol_list \in SymbolLists
    /\ idx = 1
    /\ results = <<>>
    /\ price_drop_percent = PRICE_DROP_PERCENT
    /\ cache = <<>>
    /\ prices_dict = <<>>
    /\ filtered_prices_dict = <<>>
    /\ insider_trades_dict = <<>>
    /\ filtered_trades_dict = <<>>
    /\ candidates_df = None
    /\ results_csv = None
    /\ plotted = FALSE
    /\ calls = <<>>

GatewayIdle ==
    /\ last_call = NoCall
    /\ first_ret = <<>>

NormalizerIdle ==
    /\ raw_df = NoFrame
    /\ std_df = None

Init == PipelineInit /\ GatewayIdle /\ NormalizerIdle

\* lines 44-47 of candidate_finder.py
prices_start_date == Today - PriceLookbackDays

\* lines 59-62
trades_start_date == Today - InsiderLookbackDays

\* what the network answers to the request of a fetch, if the fetch issues one
PriceAnswers(symbol, start, end) ==
    IF path_exists(cache, PricesPath(symbol, start, end))
    THEN Unasked
    ELSE PriceResponses

TradeAnswers(symbol, from, to) ==
    IF path_exists(cache, InsiderPath(symbol, from, to))
    THEN Unasked
    ELSE TradeResponses

\* one iteration of the loop of fetch_multiple_daily_prices_by_date (lines 91-97)
FetchPricesStep ==
    /\ pc = "fetch_prices"
    /\ idx <= Len(symbol_list)
    /\ \E response \in PriceAnswers(symbol_list[idx], prices_start_date, Today) :
          LET symbol == symbol_list[idx]
              outcome == fetch_daily_prices_by_date(symbol, prices_start_date, Today,
                                                    TRUE, cache, response)
          IN  /\ cache' = outcome.cache
              /\ calls' = Append(calls, Call("prices", symbol, outcome))
              /\ IF outcome.raised
                 THEN pc' = "crashed" /\ UNCHANGED <<idx, results>>
                 ELSE /\ pc' = pc
                      /\ idx' = idx + 1
                      /\ results' = IF outcome.ret # None
                                    THEN Put(results, symbol, outcome.ret)
                                    ELSE results
    /\ UNCHANGED <<symbol_list, price_drop_percent, prices_dict, filtered_prices_dict,
                   insider_trades_dict, filtered_trades_dict, candidates_df,
                   results_csv, plotted, last_call, first_ret, raw_df, std_df>>

\* line 98, and line 48 of candidate_finder.py
FetchPricesReturn ==
    /\ pc = "fetch_prices"
    /\ idx > Len(symbol_list)
    /\ prices_dict' = results
    /\ pc' = "filter_prices"
    /\ UNCHANGED <<symbol_list, idx, results, price_drop_percent, cache,
                   filtered_prices_dict, insider_trades_dict, filtered_trades_dict,
                   candidates_df, results_csv, plotted, calls, last_call, first_ret,
                   raw_df, std_df>>

\* variant: line 56 missing, the insider trades are fetched for every symbol
FilterByPriceDrop_keeping_symbol_list ==
    /\ pc = "filter_prices"
    /\ filtered_prices_dict' = filter_by_price_drop(prices_dict, price_drop_percent)
    /\ prices_dict' = prices_after_filter(prices_dict)
    /\ idx' = 1
    /\ results' = <<>>
    /\ pc' = "fetch_insider"
    /\ UNCHANGED <<symbol_list, price_drop_percent, cache, insider_trades_dict,
                   filtered_trades_dict, candidates_df, results_csv, plotted, calls,
                   last_call, first_ret, raw_df, std_df>>

\* lines 55-56 of candidate_finder.py
FilterByPriceDrop ==
    /\ pc = "filter_prices"
    /\ filtered_prices_dict' = filter_by_price_drop(prices_dict, price_drop_percent)
    /\ prices_dict' = prices_after_filter(prices_dict)
    /\ symbol_list' = KeyList(filtered_prices_dict')
    /\ idx' = 1
    /\ results' = <<>>
    /\ pc' = "fetch_insider"
    /\ UNCHANGED <<price_drop_percent, cache, insider_trades_dict,
                   filtered_trades_dict, candidates_df, results_csv, plotted, calls,
                   last_call, first_ret, raw_df, std_df>>

\* one iteration of the loop of fetch_multiple_insider_trades_by_date (lines 168-174)
FetchInsiderStep ==
    /\ pc = "fetch_insider"
    /\ idx <= Len(symbol_list)
    /\ \E response \in TradeAnswers(symbol_list[idx], trades_start_date, Today) :
          LET symbol == symbol_list[idx]
              outcome == fetch_insider_trades(symbol, trades_start_date, Today,
                                              TRUE, cache, response)
          IN  /\ cache' = outcome.cache
              /\ calls' = Append(calls, Call("insider", symbol, outcome))
              /\ IF outcome.raised
                 THEN pc' = "crashed" /\ UNCHANGED <<idx, results>>
                 ELSE /\ pc' = pc
                      /\ idx' = idx + 1
                      /\ results' = IF outcome.ret # None
                                    THEN Put(results, symbol, outcome.ret)
                                    ELSE results
    /\ UNCHANGED <<symbol_list, price_drop_percent, prices_dict, filtered_prices_dict,
                   insider_trades_dict, filtered_trades_dict, candidates_df,
                   results_csv, plotted, last_call, first_ret, raw_df, std_df>>

\* line 175, and line 63 of candidate_finder.py
FetchInsiderReturn ==
    /\ pc = "fetch_insider"
    /\ idx > Len(symbol_list)
    /\ insider_trades_dict' = results
    /\ pc' = "filter_ceo"
    /\ UNCHANGED <<symbol_list, idx, results, price_drop_percent, cache, prices_dict,
                   filtered_prices_dict, filtered_trades_dict, candidates_df,
                   results_csv, plotted, calls, last_call, first_ret, raw_df, std_df>>

\* line 70
FilterByCeoBuys ==
    /\ pc = "filter_ceo"
    /\ filtered_trades_dict' = filter_by_ceo_buys(insider_trades_dict)
    /\ pc' = "aggregate"
    /\ UNCHANGED <<symbol_list, idx, results, price_drop_percent, cache, prices_dict,
                   filtered_prices_dict, insider_trades_dict, candidates_df,
                   results_csv, plotted, calls, last_call, first_ret, raw_df, std_df>>

\* variant: lines 86-88 missing, an empty list is concatenated and stored
Aggregate_without_early_return ==
    /\ pc = "aggregate"
    /\ LET annotated == annotated_trades(filtered_trades_dict, filtered_prices_dict)
       IN  /\ filtered_trades_dict' = annotated
           /\ candidates_df' = Table(group_mean(annotated))
           /\ results_csv' = Table(group_mean(annotated))
           /\ pc' = "returned"
    /\ UNCHANGED <<symbol_list, idx, results, price_drop_percent, cache, prices_dict,
                   filtered_prices_dict, insider_trades_dict, plotted, calls,
                   last_call, first_ret, raw_df, std_df>>

\* lines 72-103
Aggregate ==
    /\ pc = "aggregate"
    /\ LET annotated == annotated_trades(filtered_trades_dict, filtered_prices_dict)
       IN  /\ filtered_trades_dict' = annotated
           /\ IF selection_raises(annotated)
              THEN pc' = "crashed" /\ UNCHANGED <<candidates_df, results_csv>>
              ELSE IF Len(annotated) = 0
              THEN /\ candidates_df' = None
                   /\ pc' = "returned"
                   /\ UNCHANGED results_csv
              ELSE /\ candidates_df' = Table(group_mean(annotated))
                   /\ results_csv' = Table(group_mean(annotated))
                   /\ pc' = "returned"
    /\ UNCHANGED <<symbol_list, idx, results, price_drop_percent, cache, prices_dict,
                   filtered_prices_dict, insider_trades_dict, plotted, calls,
                   last_call, first_ret, raw_df, std_df>>

\* main.py, line 15
should_plot(df) == df # None /\ Len(df.table) > 0

\* main.py, lines 15-16
Plot ==
    /\ pc = "returned"
    /\ should_plot(candidates_df)
    /\ plotted' = TRUE
    /\ pc' = "done"
    /\ UNCHANGED <<symbol_list, idx, results, price_drop_percent, cache, prices_dict,
                   filtered_prices_dict, insider_trades_dict, filtered_trades_dict,
                   candidates_df, results_csv, calls, last_call, first_ret, raw_df,
                   std_df>>

SkipPlot ==
    /\ pc = "returned"
    /\ ~should_plot(candidates_df)
    /\ pc' = "done"
    /\ UNCHANGED <<symbol_list, idx, results, price_drop_percent, cache, prices_dict,
                   filtered_prices_dict, insider_trades_dict, filtered_trades_dict,
                   candidates_df, results_csv, plotted, calls, last_call, first_ret,
                   raw_df, std_df>>

Next ==
    \/ FetchPricesStep
    \/ FetchPricesReturn
    \/ FilterByPriceDrop
    \/ FetchInsiderStep
    \/ FetchInsiderReturn
    \/ FilterByCeoBuys
    \/ Aggregate
    \/ Plot
    \/ SkipPlot

Spec == Init /\ [][Next]_vars

-----------------------------------------------------------------------------
(* filter_by_price_drop on its own: any dict of price frames, any threshold *)

FilterCloses == {70, 80, 100, 110}

Thresholds == {-30, -15, -10, 0, 10, 25}

\* a frame as the gateway returns it: n rows on the n days up to today,
\* oldest first, and the empty frame
SortedPriceFrames ==
    UNION {{Frame(PriceColumns,
                  [k \in 1..n |-> <<Day(Today - n + k), Num(closes[k])>>]) :
               closes \in [1..n -> FilterCloses]} :
           n \in 0..MaxRows}

\* the dicts over distinct symbols whose frames are drawn from `frames`
DictsOver(frames) ==
    UNION {{[k \in 1..n |-> Entry(keys[k], dfs[k])] :
               keys \in {l \in [1..n -> Symbols] :
                            \A i, j \in 1..n : i # j => l[i] # l[j]},
               dfs \in [1..n -> frames]} :
           n \in 0..Len(SymbolOrder)}

PriceInit ==
    /\ pc = "filter_prices"
    /\ prices_dict \in DictsOver(SortedPriceFrames)
    /\ price_drop_percent \in Thresholds
    /\ symbol_list = KeyList(prices_dict)
    /\ idx = Len(prices_dict) + 1
    /\ results = prices_dict
    /\ cache = <<>>
    /\ filtered_prices_dict = <<>>
    /\ insider_trades_dict = <<>>
    /\ filtered_trades_dict = <<>>
    /\ candidates_df = None
    /\ results_csv = None
    /\ plotted = FALSE
    /\ calls = <<>>
    /\ GatewayIdle
    /\ NormalizerIdle

SpecPrice == PriceInit /\ [][FilterByPriceDrop]_vars

-----------------------------------------------------------------------------
(* filter_by_ceo_buys on its own: any dict of insider-trading frames *)

t_ceo_lower == <<"c","e","o">>
t_Chief_Executive_Officer_CEO ==
    <<"C","h","i","e","f"," ","E","x","e","c","u","t","i","v","e"," ",
      "O","f","f","i","c","e","r"," ","(","C","E","O",")">>
t_Senior_Director_of_Engineering ==
    <<"S","e","n","i","o","r"," ","D","i","r","e","c","t","o","r"," ",
      "o","f"," ","E","n","g","i","n","e","e","r","i","n","g">>
t_Chief_Operating_Officer ==
    <<"C","h","i","e","f"," ","O","p","e","r","a","t","i","n","g"," ",
      "O","f","f","i","c","e","r">>
t_Coordinator == <<"C","o","o","r","d","i","n","a","t","o","r">>
t_10_percent_owner ==
    <<"1","0"," ","p","e","r","c","e","n","t"," ","o","w","n","e","r">>
t_DIRECTOR == <<"D","I","R","E","C","T","O","R">>
t_p_purchase_lower == <<"p","-","p","u","r","c","h","a","s","e">>

OwnerTypes ==
    {t_CEO, t_ceo_lower, t_Chief_Executive_Officer_CEO,
     t_Senior_Director_of_Engineering, t_Chief_Operating_Officer, t_Coordinator,
     t_10_percent_owner, t_DIRECTOR, t_officer_cfo, t_Vice_President}

TransactionTypes == {t_P_Purchase, t_S_Sale, t_p_purchase_lower}

\* a frame as the gateway returns it: the transaction dates parsed
OwnerFrames ==
    UNION {{Frame(TradeColumns,
                  [k \in 1..n |->
                      <<Day(Today - 5), Str(owners[k]), Str(kinds[k]),
                        Num(1000), Num(10000)>>]) :
               owners \in [1..n -> OwnerTypes], kinds \in [1..n -> TransactionTypes]} :
           n \in 0..MaxTrades}

SingleDicts(frames) == {<<Entry(symbol, df)>> : symbol \in Symbols, df \in frames}

\* what fetch_insider_trades returns for the responses of the API
GatewayTradeFrames ==
    {fetch_insider_trades("ABC", trades_start_date, Today, FALSE, <<>>,
                          HttpResponse(200, body)).ret : body \in TradeBodies}

CeoInit ==
    /\ pc = "filter_ceo"
    /\ insider_trades_dict \in SingleDicts(OwnerFrames) \cup DictsOver(GatewayTradeFrames)
    /\ price_drop_percent = PRICE_DROP_PERCENT
    /\ symbol_list = KeyList(insider_trades_dict)
    /\ idx = Len(insider_trades_dict) + 1
    /\ results = insider_trades_dict
    /\ cache = <<>>
    /\ prices_dict = <<>>
    /\ filtered_prices_dict = <<>>
    /\ filtered_trades_dict = <<>>
    /\ candidates_df = None
    /\ results_csv = None
    /\ plotted = FALSE
    /\ calls = <<>>
    /\ GatewayIdle
    /\ NormalizerIdle

SpecCeo == CeoInit /\ [][FilterByCeoBuys]_vars

-----------------------------------------------------------------------------
(* The gateway on its own: single-symbol fetches in any order, over runs of *)
(* the process that share the cache directory.                              *)

\* the windows a fetch of insider trades is asked for
TradeWindows == {Today - InsiderLookbackDays, Today - 7}

FetchInit ==
    /\ pc = "gateway"
    /\ cache = <<>>
    /\ last_call = NoCall
    /\ first_ret = <<>>
    /\ symbol_list = <<>>
    /\ idx = 1
    /\ results = <<>>
    /\ price_drop_percent = PRICE_DROP_PERCENT
    /\ prices_dict = <<>>
    /\ filtered_prices_dict = <<>>
    /\ insider_trades_dict = <<>>
    /\ filtered_trades_dict = <<>>
    /\ candidates_df = None
    /\ results_csv = None
    /\ plotted = FALSE
    /\ calls = <<>>
    /\ NormalizerIdle

DirectCall(path, outcome) ==
    [kind |-> "fetch", path |-> path, cached |-> path_exists(cache, path),
     raised |-> outcome.raised, ret |-> outcome.ret, net |-> outcome.net]

FirstReturn(path, outcome) ==
    IF outcome.ret # None /\ path \notin DOMAIN first_ret
    THEN WriteFile(first_ret, path, outcome.ret)
    ELSE first_ret

CallFetchDailyPrices ==
    /\ pc = "gateway"
    /\ \E response \in PriceAnswers("ABC", prices_start_date, Today) :
          LET path == PricesPath("ABC", prices_start_date, Today)
              outcome == fetch_daily_prices_by_date("ABC", prices_start_date, Today,
                                                    TRUE, cache, response)
          IN  /\ cache' = outcome.cache
              /\ last_call' = DirectCall(path, outcome)
              /\ first_ret' = FirstReturn(path, outcome)
    /\ UNCHANGED <<pc, symbol_list, idx, results, price_drop_percent, prices_dict,
                   filtered_prices_dict, insider_trades_dict, filtered_trades_dict,
                   candidates_df, results_csv, plotted, calls, raw_df, std_df>>

CallFetchInsiderTrades ==
    /\ pc = "gateway"
    /\ \E from \in TradeWindows :
          \E response \in TradeAnswers("ABC", from, Today) :
              LET path == InsiderPath("ABC", from, Today)
                  outcome == fetch_insider_trades("ABC", from, Today, TRUE, cache,
                                                  response)
              IN  /\ cache' = outcome.cache
                  /\ last_call' = DirectCall(path, outcome)
                  /\ first_ret' = FirstReturn(path, outcome)
    /\ UNCHANGED <<pc, symbol_list, idx, results, price_drop_percent, prices_dict,
                   filtered_prices_dict, insider_trades_dict, filtered_trades_dict,
                   candidates_df, results_csv, plotted, calls, raw_df, std_df>>

FetchNext == CallFetchDailyPrices \/ CallFetchInsiderTrades

SpecFetch == FetchInit /\ [][FetchNext]_vars

-----------------------------------------------------------------------------
(* standardize_ohlcv_dataframe on its own: one column of any of the names   *)
(* the providers use, in any letter case.                                   *)

ProviderColumnNames ==
    {rename_mapping[k][1] : k \in 1..Len(rename_mapping)}

CaseVariants(name) ==
    {[k \in 1..Len(name) |->
         IF mask[k] THEN upper_char(name[k]) ELSE lower_char(name[k])] :
     mask \in [1..Len(name) -> BOOLEAN]}

RawColumnNames == UNION {CaseVariants(name) : name \in ProviderColumnNames}

RawCells == {Num(100), Inf, NaN, Str(FormatDay(Today))}

RawFrames ==
    {Frame(<<name>>, rows) :
        name \in RawColumnNames,
        rows \in {<<>>} \cup {<< <<cell>> >> : cell \in RawCells}}

NormInit ==
    /\ pc = "standardize"
    /\ raw_df \in RawFrames
    /\ std_df = None
    /\ symbol_list = <<>>
    /\ idx = 1
    /\ results = <<>>
    /\ price_drop_percent = PRICE_DROP_PERCENT
    /\ cache = <<>>
    /\ prices_dict = <<>>
    /\ filtered_prices_dict = <<>>
    /\ insider_trades_dict = <<>>
    /\ filtered_trades_dict = <<>>
    /\ candidates_df = None
    /\ results_csv = None
    /\ plotted = FALSE
    /\ calls = <<>>
    /\ GatewayIdle

Standardize ==
    /\ pc = "standardize"
    /\ std_df' = standardize_ohlcv_dataframe(raw_df)
    /\ pc' = "standardized"
    /\ UNCHANGED <<symbol_list, idx, results, price_drop_percent, cache, prices_dict,
                   filtered_prices_dict, insider_trades_dict, filtered_trades_dict,
                   candidates_df, results_csv, plotted, calls, last_call, first_ret,
                   raw_df>>

SpecNorm == NormInit /\ [][Standardize]_vars

-----------------------------------------------------------------------------
(* Properties *)

FirstClose(df) == Cell(df, 1, n_close).num

LastClose(df) == Cell(df, Len(df.rows), n_close).num

\* (first - last) / first * 100 <= threshold, for a positive first close
DropAtMost(df, threshold) ==
    100 * (FirstClose(df) - LastClose(df)) <= threshold * FirstClose(df)

\* the rational r is (first - last) / first * 100
IsDropOf(r, df) ==
    r.n * FirstClose(df) = 100 * (FirstClose(df) - LastClose(df)) * r.d

FilterReturned == pc = "fetch_insider"

\* C1: filter_by_price_drop returns exactly the symbols whose series is
\* non-empty and whose price_drop_percent = (first.close - last.close) /
\* first.close * 100 is <= the threshold, each annotated with that value; an
\* empty series is excluded without an error; 100 -> 80 gives 20 and is
\* excluded at threshold -10.
C1_PriceDropFilterExact ==
    FilterReturned =>
        /\ \A s \in Symbols :
              s \in Keys(filtered_prices_dict) <=>
                 /\ s \in Keys(prices_dict)
                 /\ ~IsEmpty(Get(prices_dict, s))
                 /\ DropAtMost(Get(prices_dict, s), price_drop_percent)
        /\ \A s \in Keys(filtered_prices_dict) :
              LET df == Get(filtered_prices_dict, s)
              IN  /\ df.rows = Get(prices_dict, s).rows
                  /\ \A r \in 1..Len(df.rows) :
                        IsDropOf(Cell(df, r, n_price_drop).flt, df)
        /\ \A s \in Keys(prices_dict) :
              LET df == Get(prices_dict, s)
              IN  (~IsEmpty(df) /\ FirstClose(df) = 100 /\ LastClose(df) = 80) =>
                     /\ Cell(df, 1, n_price_drop).flt = RatOfInt(20)
                     /\ (price_drop_percent = -10 => s \notin Keys(filtered_prices_dict))

\* an empty series and a 100 -> 80 series were both filtered out at -10
C1_Witness ==
    /\ FilterReturned
    /\ price_drop_percent = -10
    /\ \E s \in Keys(prices_dict) : IsEmpty(Get(prices_dict, s))
    /\ \E s \in Keys(prices_dict) :
          LET df == Get(prices_dict, s)
          IN  ~IsEmpty(df) /\ FirstClose(df) = 100 /\ LastClose(df) = 80
    /\ filtered_prices_dict = <<>>

Rose(df) == ~IsEmpty(df) /\ LastClose(df) > FirstClose(df)

\* C2: for every threshold <= 0, a series whose close rose over the window
\* (last.close > first.close) is never retained by filter_by_price_drop.
C2_RiseNeverRetained ==
    (FilterReturned /\ price_drop_percent <= 0) =>
        \A s \in Keys(filtered_prices_dict) : ~Rose(Get(filtered_prices_dict, s))

\* the close declined by at least 10% over the window
DeclinedTenPercent(df) ==
    ~IsEmpty(df) /\ 100 * (FirstClose(df) - LastClose(df)) >= 10 * FirstClose(df)

FindCandidatesReturned == pc \in {"returned", "done"}

TableSymbols == IF candidates_df = None THEN {}
                ELSE {candidates_df.table[k].symbol : k \in 1..Len(candidates_df.table)}

RowsOf(s) ==
    {k \in 1..Len(candidates_df.table) : candidates_df.table[k].symbol = s}

\* C3: end to end at threshold -10, a symbol whose close declined by at least
\* 10% passes the price-drop filter and, having a qualifying insider purchase,
\* is exactly one row of the output (with ownership_change 10 for 1000 of
\* 10000 securities); a symbol whose close rose is absent from the output and
\* from every mapping after the price-drop filter.
C3_EndToEnd ==
    FindCandidatesReturned =>
        \A s \in Keys(prices_dict) :
            LET df == Get(prices_dict, s)
            IN  /\ DeclinedTenPercent(df) =>
                      /\ s \in Keys(filtered_prices_dict)
                      /\ s \in Keys(filtered_trades_dict) =>
                            Cardinality(RowsOf(s)) = 1
                /\ Rose(df) =>
                      /\ s \notin Keys(filtered_prices_dict)
                      /\ s \notin Keys(insider_trades_dict)
                      /\ s \notin Keys(filtered_trades_dict)
                      /\ s \notin TableSymbols

\* the role words of the insider-buy predicate, in upper case
RoleWords ==
    {<<"C","E","O">>, <<"C","F","O">>, <<"C","O","O">>,
     <<"D","I","R","E","C","T","O","R">>}

\* word occurs in text at some position, letter case ignored
OccursIn(word, text) ==
    \E from \in 1..Len(text) :
        /\ from + Len(word) - 1 <= Len(text)
        /\ \A k \in 1..Len(word) : upper_char(text[from + k - 1]) = word[k]

\* the qualifying predicate, on a row of an insider-trading frame
Qualifies(row) ==
    /\ row[3] = Str(<<"P","-","P","u","r","c","h","a","s","e">>)
    /\ IsStr(row[2])
    /\ \E word \in RoleWords : OccursIn(word, row[2].str)

CeoFilterReturned == pc = "aggregate"

\* C4: filter_by_ceo_buys keeps exactly the transactions whose type equals
\* "P-Purchase" and whose owner type contains, case-insensitively, one of
\* "CEO", "CFO", "COO", "director"; its output holds a symbol if and only if
\* the symbol has such a transaction.  "Senior Director of Engineering" with
\* P-Purchase matches, "Vice President" with P-Purchase does not, "CEO" with
\* S-Sale does not.
C4_CeoBuysFilterExact ==
    CeoFilterReturned =>
        /\ \A s \in Symbols :
              s \in Keys(filtered_trades_dict) <=>
                 /\ s \in Keys(insider_trades_dict)
                 /\ \E row \in Range(Get(insider_trades_dict, s).rows) : Qualifies(row)
        /\ \A s \in Keys(filtered_trades_dict) :
              /\ Get(filtered_trades_dict, s).rows =
                     SelectSeq(Get(insider_trades_dict, s).rows, Qualifies)
              /\ Get(filtered_trades_dict, s).rows # <<>>
        /\ \A s \in Keys(insider_trades_dict) :
              \A row \in Range(Get(insider_trades_dict, s).rows) :
                 LET kept == /\ s \in Keys(filtered_trades_dict)
                             /\ row \in Range(Get(filtered_trades_dict, s).rows)
                 IN  /\ (row[2] = Str(t_Senior_Director_of_Engineering)
                            /\ row[3] = Str(t_P_Purchase)) => kept
                     /\ row[2] = Str(t_Vice_President) => ~kept
                     /\ (row[2] = Str(t_CEO) /\ row[3] = Str(t_S_Sale)) => ~kept

\* a frame of a director's purchase and a vice president's purchase was
\* filtered down to the director's
C4_Witness ==
    /\ CeoFilterReturned
    /\ \E s \in Keys(filtered_trades_dict) :
          /\ Len(Get(insider_trades_dict, s).rows) = 2
          /\ Get(insider_trades_dict, s).rows[1][2] = Str(t_Vice_President)
          /\ Get(insider_trades_dict, s).rows[1][3] = Str(t_P_Purchase)
          /\ Get(insider_trades_dict, s).rows[2][2] = Str(t_Senior_Director_of_Engineering)
          /\ Len(Get(filtered_trades_dict, s).rows) = 1

\* the qualifying transactions of a symbol, as fetched
QualifyingRows(s) == SelectSeq(Get(insider_trades_dict, s).rows, Qualifies)

\* transacted / owned * 100, per row
ChangesOf(rows) == [k \in 1..Len(rows) |-> Rat(100 * rows[k][4].num, rows[k][5].num)]

\* the rational r is the mean of transacted / owned * 100 over rows
IsMeanChangeOf(r, rows) == Rat(r.n * Len(rows), r.d) = RatSum(ChangesOf(rows))

\* C5: the table find_candidates returns has exactly one row per symbol of the
\* insider-filtered mapping, with ownership_change the mean of
\* securities_transacted / securities_owned * 100 over the symbol's qualifying
\* transactions and price_drop the symbol's series-level value, whatever the
\* order of symbols and transactions (5 and 15 give 10).
C5_OneRowPerSymbolWithMeans ==
    (FindCandidatesReturned /\ candidates_df # None) =>
        /\ Len(candidates_df.table) = Cardinality(Keys(filtered_trades_dict))
        /\ \A s \in Keys(filtered_trades_dict) :
              /\ Cardinality(RowsOf(s)) = 1
              /\ \A k \in RowsOf(s) :
                    LET row == candidates_df.table[k]
                    IN  /\ IsMeanChangeOf(row.ownership_change, QualifyingRows(s))
                        /\ IsDropOf(row.price_drop, Get(prices_dict, s))

\* two purchases of 5% and 15% of the holdings were averaged to 10, in a
\* table of two symbols
C5_Witness ==
    /\ FindCandidatesReturned
    /\ candidates_df # None
    /\ Len(candidates_df.table) = 2
    /\ \E k \in 1..2 :
          LET s == candidates_df.table[k].symbol
          IN  /\ candidates_df.table[k].ownership_change = RatOfInt(10)
              /\ Len(QualifyingRows(s)) = 2
              /\ {QualifyingRows(s)[1][4].num, QualifyingRows(s)[2][4].num} = {500, 1500}

\* C6: with zero symbols surviving the insider-buy filter, find_candidates
\* returns None (not an empty table) and neither candidates.csv is written
\* nor plot_candidates called; plot_candidates is only ever called after a
\* non-empty table was returned.
C6_NoCandidatesShortCircuit ==
    /\ (FindCandidatesReturned /\ Len(filtered_trades_dict) = 0) =>
          /\ candidates_df = None
          /\ results_csv = None
          /\ ~plotted
    /\ plotted =>
          /\ FindCandidatesReturned
          /\ candidates_df # None
          /\ Len(candidates_df.table) > 0

\* trades were fetched for a symbol, none qualified, and the run ended
\* without a file or a plot
C6_Witness ==
    /\ pc = "done"
    /\ Len(insider_trades_dict) > 0
    /\ Len(filtered_trades_dict) = 0
    /\ candidates_df = None

CallsOf(kind) == SelectSeq(calls, LAMBDA c : c.kind = kind)

SymbolsOf(log) == [k \in 1..Len(log) |-> log[k].symbol]

Succeeded(log) == SelectSeq(log, LAMBDA c : c.ret # None)

\* the dict a batch fetch must return for the single-symbol fetches of log
AsDict(log) == [k \in 1..Len(Succeeded(log)) |->
                   Entry(Succeeded(log)[k].symbol, Succeeded(log)[k].ret)]

\* C7: in both batch fetches a failure for one symbol never aborts the loop:
\* every symbol of the list is attempted, the returned mapping holds a symbol
\* if and only if its single-symbol fetch returned data, and no exception
\* reaches the caller.
C7_BatchIsolatesFailures ==
    /\ pc # "crashed"
    /\ pc = "filter_prices" =>
          /\ SymbolsOf(CallsOf("prices")) \in SymbolLists
          /\ prices_dict = AsDict(CallsOf("prices"))
    /\ pc = "filter_ceo" =>
          /\ SymbolsOf(CallsOf("insider")) = KeyList(filtered_prices_dict)
          /\ insider_trades_dict = AsDict(CallsOf("insider"))

\* the fetch of the first symbol failed and the second was still fetched
C7_Witness ==
    /\ pc = "filter_ceo"
    /\ Len(CallsOf("insider")) = 2
    /\ CallsOf("insider")[1].ret = None
    /\ CallsOf("insider")[2].ret # None
    /\ CallsOf("prices")[1].ret # None

\* the canonical name of a provider's column name
Canonical(name) ==
    LET folded == str_lower(name)
    IN  IF folded \in {<<"d","a","t","e">>, <<"d","a","t","e","t","i","m","e">>}
        THEN <<"d","a","t","e">>
        ELSE IF folded \in {<<"a","d","j","c","l","o","s","e">>,
                            <<"a","d","j"," ","c","l","o","s","e">>}
        THEN <<"a","d","j","_","c","l","o","s","e">>
        ELSE folded

\* C8: for every provider column name in any letter case,
\* standardize_ohlcv_dataframe produces the canonical lowercase name: every
\* date variant including "datetime" becomes "date", and "adjclose" and
\* "adj close" become "adj_close".
C8_CanonicalColumnNames ==
    pc = "standardized" =>
        /\ Len(std_df.columns) = Len(raw_df.columns)
        /\ \A k \in 1..Len(raw_df.columns) :
              std_df.columns[k] = Canonical(raw_df.columns[k])

\* C9: with caching enabled, once a fetch for a key has succeeded, every later
\* fetch for the key issues no network call and returns the records of the
\* first fetch; a key whose fetch failed or returned no data is never written
\* to the cache, so a later fetch for it goes to the network again.
C9_CacheHitsRepeatFirstFetch ==
    /\ DOMAIN cache = DOMAIN first_ret
    /\ last_call.kind = "fetch" =>
          /\ last_call.cached =>
                /\ ~last_call.net
                /\ last_call.ret = first_ret[last_call.path]
          /\ ~last_call.cached =>
                /\ last_call.net
                /\ last_call.ret # None => last_call.ret = first_ret[last_call.path]
          /\ last_call.ret = None => last_call.path \notin DOMAIN cache
          /\ ~last_call.raised

\* a fetch of insider trades was answered from the cache with two records,
\* while the cache also holds a file of prices
C9_Witness ==
    /\ last_call.kind = "fetch"
    /\ last_call.cached
    /\ last_call.path[4] = "insider-trades"
    /\ Len(last_call.ret.rows) = 2
    /\ Cardinality(DOMAIN cache) = 3

StageOrder ==
    {<<"fetch_prices", "filter_prices">>, <<"filter_prices", "fetch_insider">>,
     <<"fetch_insider", "filter_ceo">>, <<"filter_ceo", "aggregate">>,
     <<"aggregate", "returned">>, <<"returned", "done">>}

PassedPriceFilter(s) ==
    /\ s \in Keys(filtered_prices_dict)
    /\ ~IsEmpty(Get(prices_dict, s))
    /\ DropAtMost(Get(prices_dict, s), price_drop_percent)

C10_Stages ==
    /\ pc # "crashed"
    /\ \A j, k \in 1..Len(calls) :
          (calls[j].kind = "insider" /\ calls[k].kind = "prices") => k < j
    /\ \A k \in 1..Len(calls) :
          calls[k].kind = "insider" =>
             /\ pc \notin {"fetch_prices", "filter_prices"}
             /\ PassedPriceFilter(calls[k].symbol)
    /\ pc \in {"aggregate", "returned", "done"} =>
          /\ Keys(filtered_trades_dict) \subseteq Keys(filtered_prices_dict)
          /\ Keys(filtered_trades_dict) \subseteq Keys(insider_trades_dict)
    /\ \A s \in TableSymbols :
          /\ PassedPriceFilter(s)
          /\ s \in Keys(filtered_trades_dict)
          /\ \E row \in Range(Get(insider_trades_dict, s).rows) : Qualifies(row)

\* C10: in every run of find_candidates the stages occur in the order price
\* fetch, price-drop filter, insider fetch, insider-buy filter, aggregation;
\* an insider-transaction fetch is issued only for symbols that passed the
\* price-drop filter; every symbol reaching the aggregator is in the
\* price-filtered mapping, so its price_drop is defined, and every symbol of
\* the returned table survived both filters.
C10_PipelineOrder ==
    /\ []C10_Stages
    /\ [][pc' # pc => <<pc, pc'>> \in StageOrder]_vars

\* of two symbols with prices, one failed the price-drop filter and was never
\* asked for insider trades; the other is the one row of the table
C10_Witness ==
    /\ pc = "returned"
    /\ Len(prices_dict) = 2
    /\ Len(CallsOf("insider")) = 1
    /\ candidates_df # None
    /\ Len(candidates_df.table) = 1

====
